---- MODULE Spec2Model ----
(***************************************************************************)
(* Model of the MCP media-manager server (Radarr/Sonarr gateway): the      *)
(* check_status and request_download cases of the CallToolRequestSchema    *)
(* handler, with the helpers they call.  Every `await` of the handler is a *)
(* step boundary; the synchronous code between two awaits is one action.   *)
(* The two backends are the environment: each awaited backend call either  *)
(* fails (axios throws) or answers with a payload drawn from bounded sets. *)
(***************************************************************************)
EXTENDS Integers, Sequences, FiniteSets, TLC

(***************************************************************************)
(* Bounds of the model.                                                    *)
(***************************************************************************)
\* internal ids are 1..MaxId; 0 stands for an absent (falsy) argument
MaxId == 2
\* external ids a request may carry are 1..MaxExt; 0 is absent (falsy)
MaxExt == 1
\* longest full listing the backend answers with
MaxListing == 2
\* longest lookup-by-term answer
MaxCand == 2
\* most queue records put on one page answer
MaxPageRecs == 1
\* byte size of a queue entry that has one
MaxSize == 2
\* largest totalRecords the queue endpoint reports
MaxTotal == 250
\* most records of a library when a run of request_download calls starts
MaxLibrary == 1

(***************************************************************************)
(* Program constants.                                                      *)
(***************************************************************************)
\* const pageSize = 100
pageSize == 100
\* const filters = { year, title, limit: 10 }
TitleLimit == 10

(***************************************************************************)
(* Strings are sequences of one-character strings.                         *)
(***************************************************************************)
UpperChars == <<"A","B","C","D","E","F","G","H","I","J","K","L","M",
                "N","O","P","Q","R","S","T","U","V","W","X","Y","Z">>
LowerChars == <<"a","b","c","d","e","f","g","h","i","j","k","l","m",
                "n","o","p","q","r","s","t","u","v","w","x","y","z">>
DigitChars == {"0","1","2","3","4","5","6","7","8","9"}

\* String.prototype.toLowerCase on one character
toLowerCase(c) ==
  IF \E i \in DOMAIN UpperChars : UpperChars[i] = c
    THEN LowerChars[CHOOSE i \in DOMAIN UpperChars : UpperChars[i] = c]
    ELSE c

\* the character class [a-z0-9]
IsAlnum(c) == c \in DigitChars \/ (\E i \in DOMAIN LowerChars : LowerChars[i] = c)

\* const normalize = (str) => str.toLowerCase().replace(/[^a-z0-9]/g, '')
normalize(str) ==
  SelectSeq([i \in DOMAIN str |-> toLowerCase(str[i])], IsAlnum)

\* String.prototype.includes
includes(hay, needle) ==
  \E i \in 0..(Len(hay) - Len(needle)) : SubSeq(hay, i + 1, i + Len(needle)) = needle

(***************************************************************************)
(* The titles that occur in the model, and the external movie catalogue:   *)
(* a TMDB id determines title and year.                                    *)
(***************************************************************************)
Titles == <<
  <<"T","h","e"," ","M","a","t","r","i","x">>,
  <<"T","h","e"," ","M","a","t","r","i","x"," ","R","e","l","o","a","d","e","d">>,
  <<"M","a","t","r","i","x">>,
  <<"t","h","e","-","m","a","t","r","i","x">> >>
TitleIds == DOMAIN Titles
Years == {1999, 2003}
TmdbCatalog == <<
  [title |-> 1, year |-> 1999],
  [title |-> 2, year |-> 2003],
  [title |-> 3, year |-> 1999],
  [title |-> 4, year |-> 2003] >>
TmdbIds == DOMAIN TmdbCatalog
\* normalized form of every title of the model
NormTitle == [t \in TitleIds |-> normalize(Titles[t])]


(***************************************************************************)
(* JavaScript values.  An object is a record; a property that is missing   *)
(* (undefined) is a field that is not in the record's domain.  Opaque      *)
(* texts are records with a `text` field.                                  *)
(***************************************************************************)
Undefined == [undefined |-> TRUE]
Has(obj, f) == f \in DOMAIN obj
\* truthiness of a boolean property that may be missing
Truthy(obj, f) == Has(obj, f) /\ obj[f]

\* mutant of find: the last element that satisfies the test
findLast(arr, f, v) ==
  IF \E i \in DOMAIN arr : arr[i][f] = v
    THEN arr[CHOOSE i \in DOMAIN arr :
               arr[i][f] = v /\ \A j \in DOMAIN arr : j > i => arr[j][f] # v]
    ELSE Undefined

\* Array.prototype.find with the test x => x[f] === v: the first element
\* that satisfies it, else Undefined
find(arr, f, v) ==
  IF \E i \in DOMAIN arr : arr[i][f] = v
    THEN arr[CHOOSE i \in DOMAIN arr :
               arr[i][f] = v /\ \A j \in DOMAIN arr : j < i => arr[j][f] # v]
    ELSE Undefined

\* the sequences over S of length at most n
SeqUpTo(S, n) == UNION {[1..k -> S] : k \in 0..n}

(***************************************************************************)
(* formatBytes: '0 Bytes' for 0, else the value scaled by 1024^i with two  *)
(* decimals and the unit sizes[i], i = floor(log1024(bytes)).  The value   *)
(* is kept in hundredths.  The sizes of the model stay below 1024^3, so    *)
(* the units GB and TB are never selected.                                 *)
(***************************************************************************)
sizes == <<"Bytes", "KB", "MB", "GB", "TB">>
Pow1024(i) == IF i = 0 THEN 1 ELSE IF i = 1 THEN 1024 ELSE 1048576
formatBytes(bytes) ==
  IF bytes = 0 THEN [text |-> "0 Bytes"]
  ELSE LET i == CHOOSE k \in 0..2 : Pow1024(k) <= bytes /\ (k = 2 \/ bytes < Pow1024(k + 1))
       IN [text |-> "bytes",
           value100 |-> (bytes * 200 + Pow1024(i)) \div (2 * Pow1024(i)),
           unit |-> sizes[i + 1]]

(***************************************************************************)
(* Backend payloads.                                                       *)
(***************************************************************************)
\* a movie of the Radarr library (GET /api/v3/movie, GET /api/v3/movie/{id});
\* Radarr reports hasFile exactly when sizeOnDisk > 0
RawMovie(id, tmdbId, hasFile) ==
  [id |-> id, tmdbId |-> tmdbId,
   title |-> TmdbCatalog[tmdbId].title, year |-> TmdbCatalog[tmdbId].year,
   hasFile |-> hasFile, sizeOnDisk |-> IF hasFile THEN 2048 ELSE 0,
   added |-> [text |-> "added"], ratings |-> [text |-> "ratings"]]
RawMovies == {RawMovie(i, t, h) : i \in 1..MaxId, t \in TmdbIds, h \in BOOLEAN}

\* an entry of GET /api/v3/movie/lookup: a library member carries its id,
\* a lookup-only suggestion has none (id = 0 here).  The library holds
\* catalogue entry t, when it holds it, under the internal id t.
LookupEntry(id, tmdbId) ==
  IF id = 0
    THEN [tmdbId |-> tmdbId,
          title |-> TmdbCatalog[tmdbId].title, year |-> TmdbCatalog[tmdbId].year]
    ELSE [id |-> id, tmdbId |-> tmdbId,
          title |-> TmdbCatalog[tmdbId].title, year |-> TmdbCatalog[tmdbId].year]
LookupEntries ==
  {LookupEntry(0, t) : t \in TmdbIds} \cup
  {LookupEntry(t, t) : t \in TmdbIds \cap (1..MaxId)}

\* a series of the Sonarr library; a series has no hasFile, the bytes of its
\* episode files are statistics.sizeOnDisk
RawSeries(id, tvdbId, sizeOnDisk) ==
  [id |-> id, tvdbId |-> tvdbId, statistics |-> [sizeOnDisk |-> sizeOnDisk]]
AllRawSeries ==
  {RawSeries(i, t, z) : i \in 1..MaxId, t \in 1..(MaxExt + 1), z \in {0, 2048}}

\* one record of a queue page.  timeleft is the text "hh:mm:ss", kept as its
\* three numbers; the backend's estimate here is one minute per byte left.
\* Every record carries a timeleft.
QueueEntry(movieId, size, sizeleft) ==
  [movieId |-> movieId, size |-> size, sizeleft |-> sizeleft,
   timeleft |-> <<0, sizeleft, 0>>,
   status |-> [text |-> "downloading"], title |-> [text |-> "release"]]
\* The records a page can hold when the handler looks for movie id mid: the
\* handler compares movieId with mid and reads the sizes of the match only,
\* so one record stands for all records of other movies.
QueueEntriesFor(mid) ==
  {QueueEntry(mid, sz[1], sz[2]) :
     sz \in {z \in {0, MaxSize} \X (0..MaxSize) : z[2] <= z[1]}}
  \cup {QueueEntry(mid + 1, MaxSize, MaxSize)}
\* the totalRecords values the queue endpoint reports
TotalChoices == {0, pageSize, pageSize + 1, MaxTotal}
\* the answers of GET /api/v3/queue?page=..&pageSize=..
QueuePagesFor(mid) ==
  [records : SeqUpTo(QueueEntriesFor(mid), MaxPageRecs), totalRecords : TotalChoices]

(***************************************************************************)
(* applyFilters: exact year first, then the cap.                           *)
(***************************************************************************)
\* mutant of applyFilters: the cap is applied before the year predicate
applyFiltersCapFirst(items, filters) ==
  LET YearOk(item) == item.year = filters.year
      capped == IF filters.limit # 0 /\ Len(items) > filters.limit
                  THEN SubSeq(items, 1, filters.limit)
                  ELSE items
  IN IF filters.year # 0 THEN SelectSeq(capped, YearOk) ELSE capped

applyFilters(items, filters) ==
  LET YearOk(item) == item.year = filters.year
      byYear == IF filters.year # 0 THEN SelectSeq(items, YearOk) ELSE items
  IN IF filters.limit # 0 /\ Len(byYear) > filters.limit
       THEN SubSeq(byYear, 1, filters.limit)
       ELSE byYear

(***************************************************************************)
(* reduceMovieData: the reduced record has no hasFile, sizeOnDisk, added   *)
(* or ratings; `downloaded` is derived from the stored size.               *)
(***************************************************************************)
reduceMovieData(movie) ==
  LET size == IF Has(movie, "sizeOnDisk") THEN movie.sizeOnDisk ELSE 0
      base == [title |-> movie.title, year |-> movie.year, tmdbId |-> movie.tmdbId,
               size |-> formatBytes(size), downloaded |-> size # 0]
  IN IF Has(movie, "id") THEN base @@ [id |-> movie.id] ELSE base


(***************************************************************************)
(* Fuzzy title match of check_status (movie, title branch).                *)
(***************************************************************************)
\* let bestScore = -Infinity: below every score
NegInfinity == -1

\* mutant of scoreOf: `if` in place of `else if`, the exact and the substring
\* bonus are both added
scoreOfCumulative(m, inputTitle, year) ==
  LET mTitle == NormTitle[m.title]
  IN (IF mTitle = inputTitle THEN 100 ELSE 0)
     + (IF includes(mTitle, inputTitle) THEN 50 ELSE 0)
     + (IF year # 0 /\ m.year = year THEN 20 ELSE 0)

\* the score of candidate m against the normalized input title and the year
scoreOf(m, inputTitle, year) ==
  LET mTitle == NormTitle[m.title]
      titleScore == IF mTitle = inputTitle THEN 100
                    ELSE IF includes(mTitle, inputTitle) THEN 50
                    ELSE 0
      yearScore == IF year # 0 /\ m.year = year THEN 20 ELSE 0
  IN titleScore + yearScore

\* mutant of replacesBest: a tie replaces the current best (last-seen wins)
replacesBestOnTie(score, bestScore) == score >= bestScore

\* `if (score > bestScore)`: a later candidate needs a strictly higher score
replacesBest(score, bestScore) == score > bestScore

\* the for-loop from candidate i on, carrying bestMatch and bestScore
RECURSIVE fuzzyLoop(_, _, _, _, _, _)
fuzzyLoop(candidates, i, inputTitle, year, bestMatch, bestScore) ==
  IF i > Len(candidates) THEN bestMatch
  ELSE LET score == scoreOf(candidates[i], inputTitle, year)
       IN IF replacesBest(score, bestScore)
            THEN fuzzyLoop(candidates, i + 1, inputTitle, year, candidates[i], score)
            ELSE fuzzyLoop(candidates, i + 1, inputTitle, year, bestMatch, bestScore)

\* let bestMatch = candidates[0]; let bestScore = -Infinity; for (...) {...}
fuzzyMatch(candidates, title, year) ==
  fuzzyLoop(candidates, 1, NormTitle[title], year, candidates[1], NegInfinity)

(***************************************************************************)
(* Queue projection of a matched queue record.                             *)
(***************************************************************************)
\* mutant of progressGuard: `>=` in place of `>`
progressGuardNonNegative(match) == match.size >= 0

\* `match.size > 0`
progressGuard(match) == match.size > 0

\* ((size - sizeleft) / size * 100).toFixed(2) + '%', in hundredths of a
\* percent; a JavaScript division by zero gives NaN (0/0) or Infinity
percentFixed2(num, den) ==
  IF den = 0
    THEN [text |-> IF num = 0 THEN "NaN%" ELSE "Infinity%"]
    ELSE [text |-> "percent", hundredths |-> (num * 20000 + den) \div (2 * den)]

downloadProgress(match) ==
  IF progressGuard(match)
    THEN percentFixed2(match.size - match.sizeleft, match.size)
    ELSE [text |-> "0%"]

\* formatTime: the parts "<n> hour(s)", "<n> minute(s)", "<n> second(s)" of
\* the nonzero numbers, the seconds also when nothing else is there
formatTime(time) ==
  LET hours == time[1]
      minutes == time[2]
      seconds == time[3]
      part(n, unit) == [n |-> n, unit |-> unit, plural |-> n # 1]
      hm == (IF hours > 0 THEN <<part(hours, "hour")>> ELSE <<>>)
            \o (IF minutes > 0 THEN <<part(minutes, "minute")>> ELSE <<>>)
  IN hm \o (IF seconds > 0 \/ Len(hm) = 0 THEN <<part(seconds, "second")>> ELSE <<>>)

queueProjection(match) ==
  [timeLeft |-> formatTime(match.timeleft),
   sizeLeft |-> formatBytes(match.sizeleft),
   status |-> match.status,
   title |-> match.title,
   downloadProgress |-> downloadProgress(match)]


(***************************************************************************)
(* State.                                                                  *)
(***************************************************************************)
VARIABLES
  \* check_status: the handler's position and locals
  pc, args, movie, series, lookupData, results, status,
  page, totalRecords, found, response,
  \* check_status: history of the request (not program state); lastPage is
  \* the answer to the latest queue page request
  calls, failed, scores, matched, maxTotal, lastPage,
  \* request_download: the backend libraries, the in-flight requests and the
  \* create commands that reached a backend
  radarrMovies, sonarrSeries, dl, posts,
  \* the backend's transfer queue of movies, for the scans that page it live
  radarrQueue,
  \* search_media, get_wanted, get_activity, get_system_status: the call in
  \* progress (position, arguments, locals, outcome)
  tl

csVars == <<pc, args, movie, series, lookupData, results, status,
            page, totalRecords, found, response,
            calls, failed, scores, matched, maxTotal, lastPage>>
dlVars == <<radarrMovies, sonarrSeries, dl, posts, radarrQueue>>
vars == <<csVars, dlVars, tl>>

\* the arguments of a check_status request; 0 is an absent (falsy) field.
\* The handler tests a field it does not use for a lookup at most for
\* presence (the if / else if chain), so such a field is absent or has one
\* value: the other catalog's external id, the external id behind an
\* internal id, and title and year outside the movie title branch.
CheckStatusArgs ==
  {a \in [mediaType : {"movie", "series"}, id : 0..MaxId, tmdbId : 0..MaxExt,
          tvdbId : 0..MaxExt, title : {0} \cup TitleIds, year : {0} \cup Years] :
     /\ (a.mediaType = "series" \/ a.id # 0) => a.tmdbId <= 1
     /\ (a.mediaType = "movie" \/ a.id # 0) => a.tvdbId <= 1
     /\ (a.mediaType = "series" \/ a.id # 0 \/ a.tmdbId # 0) =>
          (a.title <= 1 /\ a.year \in {0, 1999})}

NoArgs == [mediaType |-> "movie", id |-> 0, tmdbId |-> 0, tvdbId |-> 0,
           title |-> 0, year |-> 0]
NoCalls == [getById |-> 0, listAll |-> 0, lookup |-> 0, queue |-> 0]
NA == [text |-> "N/A"]
EmptyList == [text |-> "[]"]
EmptyObject == [text |-> "{}"]

CsInit ==
  /\ pc = "idle" /\ args = NoArgs
  /\ movie = Undefined /\ series = Undefined
  /\ lookupData = <<>> /\ results = <<>> /\ status = Undefined
  /\ page = 0 /\ totalRecords = 0 /\ found = FALSE /\ response = Undefined
  /\ calls = NoCalls /\ failed = FALSE /\ scores = <<>>
  /\ matched = Undefined /\ maxTotal = 0 /\ lastPage = Undefined

\* a transfer queue: `ahead` records of other movies, then the record
\* `entry` (when there is one), then `behind` records of other movies;
\* changes and entryChanged are history: how often the queue changed, and
\* whether `entry` itself was added or removed
EmptyQueue ==
  [ahead |-> 0, entry |-> Undefined, behind |-> 0,
   changes |-> 0, entryChanged |-> FALSE]

DlIdle ==
  /\ radarrMovies = <<>> /\ sonarrSeries = <<>>
  /\ dl = <<>> /\ posts = <<>>
  /\ radarrQueue = EmptyQueue

\* the arguments of the four read-only tools; "" and 0 are absent fields
NoToolArgs == [mediaType |-> "", year |-> 0, title |-> 0, limit |-> 0, system |-> ""]
TlIdleCall ==
  [name |-> "none", pc |-> "idle", args |-> NoToolArgs, backend |-> "none",
   apiKey |-> "none", gets |-> 0, fetched |-> <<>>, results |-> <<>>,
   failed |-> FALSE, response |-> "none"]
TlInit == tl = TlIdleCall

Init == CsInit /\ DlIdle /\ TlInit

(***************************************************************************)
(* check_status.                                                           *)
(***************************************************************************)
\* the handler returns `content`; kind names which return statement ran
Respond(kind, st) ==
  /\ response' = [kind |-> kind, status |-> st]
  /\ pc' = "done"

\* mutant of movieBranch: the external id is tested before the internal id
movieBranchExternalFirst(a) ==
  IF a.tmdbId # 0 THEN "external"
  ELSE IF a.id # 0 THEN "id"
  ELSE IF a.title # 0 THEN "title"
  ELSE "none"

\* which resolution branch the if / else if chain of the handler takes
movieBranch(a) ==
  IF a.id # 0 THEN "id"
  ELSE IF a.tmdbId # 0 THEN "external"
  ELSE IF a.title # 0 THEN "title"
  ELSE "none"

\* mutant of seriesBranch: a title is accepted for a series as for a movie
seriesBranchWithTitle(a) ==
  IF a.id # 0 THEN "id"
  ELSE IF a.tvdbId # 0 THEN "external"
  ELSE IF a.title # 0 THEN "title"
  ELSE "none"

seriesBranch(a) ==
  IF a.id # 0 THEN "id"
  ELSE IF a.tvdbId # 0 THEN "external"
  ELSE "none"
branchOf(a) == IF a.mediaType = "movie" THEN movieBranch(a) ELSE seriesBranch(a)

\* mutant of CheckStatus: the first queue page is requested together with
\* the first resolution call
CheckStatusPrefetch(a) ==
  /\ pc = "idle"
  /\ args' = a
  /\ LET b == branchOf(a) IN
       \/ /\ b = "id"
          /\ pc' = "getById"
          /\ calls' = [calls EXCEPT !.getById = @ + 1, !.queue = @ + 1]
          /\ UNCHANGED response
       \/ /\ b = "external"
          /\ pc' = "listing"
          /\ calls' = [calls EXCEPT !.listAll = @ + 1, !.queue = @ + 1]
          /\ UNCHANGED response
       \/ /\ b = "title"
          /\ pc' = "lookup"
          /\ calls' = [calls EXCEPT !.lookup = @ + 1, !.queue = @ + 1]
          /\ UNCHANGED response
       \/ /\ b = "none"
          /\ Respond("missingId", Undefined)
          /\ UNCHANGED calls
  /\ UNCHANGED <<movie, series, lookupData, results, status, page, totalRecords,
                 found, failed, scores, matched, maxTotal, lastPage, dlVars, tl>>

\* a request arrives: the synchronous code up to the first await
CheckStatus(a) ==
  /\ pc = "idle"
  /\ args' = a
  /\ LET b == branchOf(a) IN
       \/ /\ b = "id"
          /\ pc' = "getById"
          /\ calls' = [calls EXCEPT !.getById = @ + 1]
          /\ UNCHANGED response
       \/ /\ b = "external"
          /\ pc' = "listing"
          /\ calls' = [calls EXCEPT !.listAll = @ + 1]
          /\ UNCHANGED response
       \/ /\ b = "title"
          /\ pc' = "lookup"
          /\ calls' = [calls EXCEPT !.lookup = @ + 1]
          /\ UNCHANGED response
       \/ /\ b = "none"
          /\ Respond("missingId", Undefined)
          /\ UNCHANGED calls
  /\ UNCHANGED <<movie, series, lookupData, results, status, page, totalRecords,
                 found, failed, scores, matched, maxTotal, lastPage,
                 dlVars, tl>>

\* mutant of searchesQueue: the negation is dropped
searchesQueueInverted(m) == Truthy(m, "hasFile")

\* `!movie.hasFile`: whether the queue is searched for the resolved record
searchesQueue(m) == ~Truthy(m, "hasFile")

\* mutant of initialStatus: in_queue starts as true
initialStatusInQueue(m) ==
  LET st0 == [in_queue |-> TRUE, size |-> NA, added |-> NA,
              ratings |-> EmptyList, queue |-> EmptyObject]
  IN IF Has(m, "hasFile") THEN st0 @@ [hasFile |-> m.hasFile] ELSE st0

\* status = { hasFile: movie.hasFile, in_queue: false, size: "N/A", ... }
initialStatus(m) ==
  LET st0 == [in_queue |-> FALSE, size |-> NA, added |-> NA,
              ratings |-> EmptyList, queue |-> EmptyObject]
  IN IF Has(m, "hasFile") THEN st0 @@ [hasFile |-> m.hasFile] ELSE st0

\* the else branch: status.size, status.added, status.ratings from the record
onDiskStatus(m) ==
  [initialStatus(m) EXCEPT !.size = formatBytes(m.sizeOnDisk),
                           !.added = m.added,
                           !.ratings = m.ratings]

\* mutant of assembleStatus: the metadata is taken from every record that
\* carries it, before the queue is searched
assembleStatusEager(m) ==
  IF Has(m, "sizeOnDisk") THEN onDiskStatus(m) ELSE initialStatus(m)

\* the status object when the synchronous assembly ends: the metadata is
\* filled in only on the branch that does not search the queue
assembleStatus(m) ==
  IF searchesQueue(m) THEN initialStatus(m) ELSE onDiskStatus(m)

\* status = {...} for the resolved movie m, then either the first queue page
\* request or the response; c is the call history
MovieResolved(m, c) ==
  /\ movie' = m
  /\ status' = assembleStatus(m)
  /\ IF searchesQueue(m)
       THEN /\ page' = 1 /\ totalRecords' = 0 /\ found' = FALSE
            /\ calls' = [c EXCEPT !.queue = @ + 1]
            /\ pc' = "queue"
            /\ UNCHANGED response
       ELSE /\ calls' = c
            /\ Respond("status", status')
            /\ UNCHANGED <<page, totalRecords, found>>

\* status = {...} for the resolved series, then the response
SeriesResolved(s) ==
  /\ series' = s
  /\ status' = [monitored |-> [text |-> "monitored"]]
  /\ Respond("status", status')

\* GET /api/v3/movie/{id} or /api/v3/series/{id} answers 2xx
GetByIdOk ==
  /\ pc = "getById"
  /\ \/ /\ args.mediaType = "movie"
        /\ \E t \in TmdbIds, h \in BOOLEAN : MovieResolved(RawMovie(args.id, t, h), calls)
        /\ UNCHANGED series
     \/ /\ args.mediaType = "series"
        /\ \E t \in 1..(MaxExt + 1), z \in {0, 2048} :
             SeriesResolved(RawSeries(args.id, t, z))
        /\ UNCHANGED <<movie, page, totalRecords, found, calls>>
  /\ UNCHANGED <<args, lookupData, results, failed, scores, matched, maxTotal, lastPage,
                 dlVars, tl>>

\* the code after the listing request answered with `data`: the record is
\* looked up by external id, then the status is assembled or not-found is
\* returned
ListingAnswers(data) ==
  /\ pc = "listing"
  /\ \/ /\ args.mediaType = "movie"
        /\ LET m == find(data, "tmdbId", args.tmdbId)
           IN IF m = Undefined
                THEN /\ Respond("notFound", Undefined)
                     /\ UNCHANGED <<movie, status, page, totalRecords, found, calls>>
                ELSE MovieResolved(m, calls)
        /\ UNCHANGED series
     \/ /\ args.mediaType = "series"
        /\ LET s == find(data, "tvdbId", args.tvdbId)
           IN IF s = Undefined
                THEN /\ Respond("notFound", Undefined)
                     /\ UNCHANGED <<series, status>>
                ELSE SeriesResolved(s)
        /\ UNCHANGED <<movie, page, totalRecords, found, calls>>
  /\ UNCHANGED <<args, lookupData, results, failed, scores, matched, maxTotal, lastPage,
                 dlVars, tl>>

\* GET /api/v3/movie or /api/v3/series answers with the full listing
ListingOk ==
  /\ pc = "listing"
  /\ \E data \in (IF args.mediaType = "movie"
                     THEN SeqUpTo(RawMovies, MaxListing)
                     ELSE SeqUpTo(AllRawSeries, MaxListing)) :
       ListingAnswers(data)


\* the lookup entries that are library members (`if (movie.id)`)
WithId(entries) == LET HasId(e) == Has(e, "id") IN SelectSeq(entries, HasId)

\* getRadarrMovies: GET /api/v3/movie/lookup answers; one GET /movie/{id} is
\* issued for every entry that carries an id (Promise.all over the map)
LookupOk ==
  /\ pc = "lookup"
  /\ \E data \in SeqUpTo(LookupEntries, MaxCand) :
       /\ lookupData' = data
       /\ calls' = [calls EXCEPT !.getById = @ + Len(WithId(data))]
  /\ pc' = "lookupFull"
  /\ UNCHANGED <<args, movie, series, results, status, page, totalRecords, found,
                 response, failed, scores, matched, maxTotal, lastPage,
                 dlVars, tl>>

\* getRadarrMovies: every GET /movie/{id} answered; the function returns
\* applyFilters(movies, filters).map(reduceMovieData)
LookupFullOk ==
  /\ pc = "lookupFull"
  /\ \E hasFile \in [1..MaxId -> BOOLEAN] :
       LET movies == [i \in DOMAIN lookupData |->
                        IF Has(lookupData[i], "id")
                          THEN RawMovie(lookupData[i].id, lookupData[i].tmdbId,
                                        hasFile[lookupData[i].id])
                          ELSE lookupData[i]]
           filters == [year |-> args.year, title |-> args.title, limit |-> TitleLimit]
           kept == applyFilters(movies, filters)
       IN results' = [i \in DOMAIN kept |-> reduceMovieData(kept[i])]
  /\ pc' = "titleResults"
  /\ lookupData' = <<>>
  /\ UNCHANGED <<args, movie, series, status, page, totalRecords, found,
                 response, calls, failed, scores, matched, maxTotal, lastPage,
                 dlVars, tl>>

\* mutant of candidatesOf: the filter on the id is left out
candidatesOfAll(res) == res

\* results.filter(m => m.id): only movies with ids
candidatesOf(res) == WithId(res)

\* the code after `await getRadarrMovies(filters)`: candidates, fuzzy match,
\* status assembly
TitleResolve ==
  /\ pc = "titleResults"
  /\ LET candidates == candidatesOf(results) IN
       IF Len(candidates) = 0
         THEN /\ Respond("notFound", Undefined)
              /\ UNCHANGED <<movie, status, page, totalRecords, found, calls, scores>>
         ELSE /\ scores' = [i \in DOMAIN candidates |->
                              scoreOf(candidates[i], NormTitle[args.title], args.year)]
              /\ MovieResolved(fuzzyMatch(candidates, args.title, args.year), calls)
  /\ results' = <<>>
  /\ UNCHANGED <<args, series, lookupData, failed, matched, maxTotal, lastPage,
                 dlVars, tl>>

\* mutant of continuesPaging: the loop runs for as long as the queue is
\* reported non-empty, whatever the page
continuesPagingWhileAny(p, total, fnd) == total > 0 /\ ~fnd

\* mutant of continuesPaging: `page * pageSize` in place of
\* `(page - 1) * pageSize`, the scan stops one page early
continuesPagingOnePageShort(p, total, fnd) == p * pageSize < total /\ ~fnd

\* mutant of continuesPaging: `<=` in place of `<`
continuesPagingInclusive(p, total, fnd) == (p - 1) * pageSize <= total /\ ~fnd

\* `(page - 1) * pageSize < totalRecords && !found`, evaluated after page++
continuesPaging(p, total, fnd) == (p - 1) * pageSize < total /\ ~fnd

\* mutant of QueuePageAnswers: no `break` and no `!found` in the loop
\* condition, the scan goes on behind the page that holds the match
QueuePageAnswersNoBreak(data) ==
  /\ pc = "queue"
  /\ LET match == find(data.records, "movieId", movie.id)
       IN /\ totalRecords' = data.totalRecords
          /\ lastPage' = data
          /\ maxTotal' = IF data.totalRecords > maxTotal THEN data.totalRecords ELSE maxTotal
          /\ page' = page + 1
          /\ IF match # Undefined
               THEN /\ found' = TRUE
                    /\ matched' = match
                    /\ status' = [status EXCEPT !.in_queue = TRUE,
                                                !.queue = queueProjection(match)]
               ELSE UNCHANGED <<found, matched, status>>
          /\ IF continuesPaging(page', totalRecords', FALSE)
               THEN /\ calls' = [calls EXCEPT !.queue = @ + 1]
                    /\ UNCHANGED <<pc, response>>
               ELSE /\ Respond("status", status')
                    /\ UNCHANGED calls
  /\ UNCHANGED <<args, movie, series, lookupData, results, failed, scores, dlVars, tl>>

\* mutant of QueuePageAnswers: totalRecords is taken from the first page
\* and kept for the rest of the scan
QueuePageAnswersStaleTotal(data) ==
  /\ pc = "queue"
  /\ LET match == find(data.records, "movieId", movie.id)
       IN /\ totalRecords' = IF page = 1 THEN data.totalRecords ELSE totalRecords
          /\ lastPage' = data
          /\ maxTotal' = IF data.totalRecords > maxTotal THEN data.totalRecords ELSE maxTotal
          /\ IF match # Undefined
               THEN /\ found' = TRUE
                    /\ matched' = match
                    /\ status' = [status EXCEPT !.in_queue = TRUE,
                                                !.queue = queueProjection(match)]
                    /\ Respond("status", status')
                    /\ UNCHANGED <<page, calls>>
               ELSE /\ page' = page + 1
                    /\ UNCHANGED <<found, matched, status>>
                    /\ IF continuesPaging(page', totalRecords', found')
                         THEN /\ calls' = [calls EXCEPT !.queue = @ + 1]
                              /\ UNCHANGED <<pc, response>>
                         ELSE /\ Respond("status", status)
                              /\ UNCHANGED calls
  /\ UNCHANGED <<args, movie, series, lookupData, results, failed, scores, dlVars, tl>>

\* one iteration of the do/while, from the answer `data` of the page request
\* to the next page request or the response
QueuePageAnswers(data) ==
  /\ pc = "queue"
  /\ LET match == find(data.records, "movieId", movie.id)
       IN /\ totalRecords' = data.totalRecords
          /\ lastPage' = data
          /\ maxTotal' = IF data.totalRecords > maxTotal THEN data.totalRecords ELSE maxTotal
          /\ IF match # Undefined
               THEN /\ found' = TRUE
                    /\ matched' = match
                    /\ status' = [status EXCEPT !.in_queue = TRUE,
                                                !.queue = queueProjection(match)]
                    /\ Respond("status", status')
                    /\ UNCHANGED <<page, calls>>
               ELSE /\ page' = page + 1
                    /\ UNCHANGED <<found, matched, status>>
                    /\ IF continuesPaging(page', totalRecords', found')
                         THEN /\ calls' = [calls EXCEPT !.queue = @ + 1]
                              /\ UNCHANGED <<pc, response>>
                         ELSE /\ Respond("status", status)
                              /\ UNCHANGED calls
  /\ UNCHANGED <<args, movie, series, lookupData, results, failed, scores, dlVars, tl>>

\* the queue page request answers
QueuePageOk ==
  /\ pc = "queue"
  /\ \E data \in QueuePagesFor(movie.id) : QueuePageAnswers(data)

\* the awaited calls of check_status that can be rejected
awaitsBackend ==
  \/ pc \in {"getById", "listing", "lookup", "queue"}
  \/ pc = "lookupFull" /\ Len(WithId(lookupData)) > 0

\* mutant of CallFails: a rejected call is answered as "not found"
CallFailsAsNotFound ==
  /\ awaitsBackend
  /\ failed' = TRUE
  /\ Respond("notFound", Undefined)
  /\ lookupData' = <<>>
  /\ UNCHANGED <<args, movie, series, results, status, page, totalRecords, found,
                 calls, scores, matched, maxTotal, lastPage,
                 dlVars, tl>>

\* an awaited backend call rejects (network error, non-2xx): catch (err)
\* returns the "An error occurred while checking status" response
CallFails ==
  /\ awaitsBackend
  /\ failed' = TRUE
  /\ Respond("error", Undefined)
  /\ lookupData' = <<>>
  /\ UNCHANGED <<args, movie, series, results, status, page, totalRecords, found,
                 calls, scores, matched, maxTotal, lastPage,
                 dlVars, tl>>

\* the response is delivered; the handler is ready for the next request
Return ==
  /\ pc = "done"
  /\ pc' = "idle" /\ args' = NoArgs
  /\ movie' = Undefined /\ series' = Undefined
  /\ lookupData' = <<>> /\ results' = <<>> /\ status' = Undefined
  /\ page' = 0 /\ totalRecords' = 0 /\ found' = FALSE /\ response' = Undefined
  /\ calls' = NoCalls /\ failed' = FALSE /\ scores' = <<>>
  /\ matched' = Undefined /\ maxTotal' = 0 /\ lastPage' = Undefined
  /\ UNCHANGED <<dlVars, tl>>

Next ==
  \/ \E a \in CheckStatusArgs : CheckStatus(a)
  \/ GetByIdOk
  \/ ListingOk
  \/ LookupOk
  \/ LookupFullOk
  \/ TitleResolve
  \/ QueuePageOk
  \/ CallFails
  \/ Return

Spec == Init /\ [][Next]_vars

(***************************************************************************)
(* check_status by external id against a library: the listing request is   *)
(* answered with the library as it is.  A request reads the listing of one *)
(* catalog, the other library is empty.  A library may hold two records    *)
(* with one external id.                                                   *)
(***************************************************************************)
ExternalArgs ==
  {a \in CheckStatusArgs :
     /\ a.id = 0 /\ a.title = 0 /\ a.year = 0
     /\ IF a.mediaType = "movie" THEN a.tmdbId # 0 /\ a.tvdbId = 0
                                 ELSE a.tvdbId # 0 /\ a.tmdbId = 0}

\* the libraries: internal ids are the positions
MovieLibraries ==
  {lib \in SeqUpTo(RawMovies, MaxListing) : \A i \in DOMAIN lib : lib[i].id = i}
SeriesLibraries ==
  {lib \in SeqUpTo(AllRawSeries, MaxListing) : \A i \in DOMAIN lib : lib[i].id = i}

InitListing ==
  /\ CsInit /\ TlInit
  /\ dl = <<>> /\ posts = <<>> /\ radarrQueue = EmptyQueue
  /\ \/ radarrMovies \in MovieLibraries /\ sonarrSeries = <<>>
     \/ radarrMovies = <<>> /\ sonarrSeries \in SeriesLibraries

\* the listing request answers with the library
ListingLive ==
  /\ pc = "listing"
  /\ ListingAnswers(IF args.mediaType = "movie" THEN radarrMovies ELSE sonarrSeries)

NextListing ==
  \/ \E a \in ExternalArgs : CheckStatus(a)
  \/ ListingLive
  \/ QueuePageOk
  \/ CallFails
  \/ Return

SpecListing == InitListing /\ [][NextListing]_vars

(***************************************************************************)
(* The queue scan in depth: check_status by internal id for a movie, with  *)
(* queue pages that hold several records, two of one movie among them.     *)
(***************************************************************************)
\* most queue records on one page answer of these scans
MaxScanRecs == 2

ScanArgs ==
  {a \in CheckStatusArgs :
     /\ a.mediaType = "movie" /\ a.id # 0
     /\ a.tmdbId = 0 /\ a.tvdbId = 0 /\ a.title = 0 /\ a.year = 0}

QueuePagesWide(mid) ==
  [records : SeqUpTo(QueueEntriesFor(mid), MaxScanRecs), totalRecords : TotalChoices]

\* the queue page request answers
QueuePageWide ==
  /\ pc = "queue"
  /\ \E data \in QueuePagesWide(movie.id) : QueuePageAnswers(data)

NextScan ==
  \/ \E a \in ScanArgs : CheckStatus(a)
  \/ GetByIdOk
  \/ QueuePageWide
  \/ CallFails
  \/ Return

SpecScan == Init /\ [][NextScan]_vars

\* every queue page request completes: the axios.get of the loop is answered
\* (or rejected) in finite time and the handler resumes
SpecScanLive == SpecScan /\ WF_vars(QueuePageWide)


(***************************************************************************)
(* request_download.  The libraries are backend state: an accepted create  *)
(* adds a record, which later listings contain.  Each request slot serves  *)
(* one call.                                                               *)
(***************************************************************************)
\* the request_download calls of one run
Requests == {1, 2}

\* the arguments of a request_download call; 0 is an absent (falsy) field
DownloadArgs ==
  [mediaType : {"movie", "series"}, tmdbId : 0..MaxExt, tvdbId : 0..MaxExt]

DlIdleRequest ==
  [pc |-> "idle", args |-> [mediaType |-> "movie", tmdbId |-> 0, tvdbId |-> 0],
   lists |-> 0, listed |-> FALSE, existing |-> Undefined, creates |-> 0,
   backends |-> {}, overlap |-> {}, response |-> "none"]

\* a library in which every external id occurs at most once
NoDuplicates(lib, field) ==
  \A i, j \in DOMAIN lib : lib[i][field] = lib[j][field] => i = j

\* the records of a library are listed by ascending external id; the guard
\* of request_download asks only whether a record is there, so this order
\* stands for every order
Ascending(lib, field) ==
  \A i, j \in DOMAIN lib : i < j => lib[i][field] < lib[j][field]

\* the libraries a run starts from: internal ids are the positions
InitialMovies ==
  {lib \in SeqUpTo(RawMovies, MaxLibrary) :
     /\ \A i \in DOMAIN lib : lib[i].id = i /\ lib[i].tmdbId <= MaxExt + 1
     /\ NoDuplicates(lib, "tmdbId") /\ Ascending(lib, "tmdbId")}
InitialSeries ==
  {lib \in SeqUpTo(AllRawSeries, MaxLibrary) :
     /\ \A i \in DOMAIN lib : lib[i].id = i /\ lib[i].tvdbId <= MaxExt
     /\ NoDuplicates(lib, "tvdbId") /\ Ascending(lib, "tvdbId")}

DlInit ==
  /\ radarrMovies \in InitialMovies
  /\ sonarrSeries \in InitialSeries
  /\ dl = [r \in Requests |-> DlIdleRequest]
  /\ posts = {}
  /\ radarrQueue = EmptyQueue

InitAcq == CsInit /\ DlInit /\ TlInit

inFlight(r) == dl[r].pc \notin {"idle", "done"}

DlRespond(r, text) == [dl[r] EXCEPT !.pc = "done", !.response = text]

\* mutant of RequestDownload: the backend is chosen by mediaType
RequestDownloadByMediaType(r, a) ==
  /\ dl[r].pc = "idle"
  /\ LET started == [dl[r] EXCEPT !.args = a,
                                  !.overlap = {q \in Requests : inFlight(q)}]
     IN dl' = [dl EXCEPT ![r] =
                 IF a.mediaType = "movie" /\ a.tmdbId # 0
                   THEN [started EXCEPT !.pc = "listMovies", !.lists = @ + 1,
                                        !.backends = @ \cup {"radarr"}]
                 ELSE IF a.mediaType = "series" /\ a.tvdbId # 0
                   THEN [started EXCEPT !.pc = "listSeries", !.lists = @ + 1,
                                        !.backends = @ \cup {"sonarr"}]
                 ELSE [started EXCEPT !.pc = "done", !.response = "missingId"]]
  /\ UNCHANGED <<radarrMovies, sonarrSeries, posts, radarrQueue, csVars, tl>>

\* a call arrives: the synchronous code up to the first await; backends is
\* history, the backends the call has sent a request to
RequestDownload(r, a) ==
  /\ dl[r].pc = "idle"
  /\ LET started == [dl[r] EXCEPT !.args = a,
                                  !.overlap = {q \in Requests : inFlight(q)}]
     IN dl' = [dl EXCEPT ![r] =
                 IF a.tmdbId # 0
                   THEN [started EXCEPT !.pc = "listMovies", !.lists = @ + 1,
                                        !.backends = @ \cup {"radarr"}]
                 ELSE IF a.tvdbId # 0
                   THEN [started EXCEPT !.pc = "listSeries", !.lists = @ + 1,
                                        !.backends = @ \cup {"sonarr"}]
                 ELSE [started EXCEPT !.pc = "done", !.response = "missingId"]]
  /\ UNCHANGED <<radarrMovies, sonarrSeries, posts, radarrQueue, csVars, tl>>

\* the same, for calls made one after the other: no other call is in flight
RequestDownloadInSuccession(r, a) ==
  /\ \A q \in Requests : ~inFlight(q)
  /\ \A q \in Requests : q < r => dl[q].pc = "done"
  /\ RequestDownload(r, a)

\* mutant of existingMovie: no idempotency guard, the record is never found
existingMovieUnguarded(data, a) == Undefined

\* existingMoviesRes.data.find(m => m.tmdbId === args.tmdbId)
existingMovie(data, a) ==
  find(data, "tmdbId", a.tmdbId)

\* mutant of existingSeries: the guard is skipped for series
existingSeriesUnguarded(data, a) == Undefined

\* existingSeriesRes.data.find(s => s.tvdbId === args.tvdbId)
existingSeries(data, a) ==
  find(data, "tvdbId", a.tvdbId)

\* mutant of movieOutcome: one message for every movie that is found
movieOutcomeBlind(existing) == "movieDownloaded"

\* if (existingMovie.hasFile) "already exists ... and is downloaded"
\* else "already in the library and may be downloading"
movieOutcome(existing) ==
  IF existing.hasFile THEN "movieDownloaded" ELSE "movieMayBeDownloading"

\* GET /api/v3/movie answers with the library: the guard, then either an
\* already-present response or the create command (axios.post is issued)
DlMoviesListed(r) ==
  /\ dl[r].pc = "listMovies"
  /\ LET existing == existingMovie(radarrMovies, dl[r].args)
         seen == [dl[r] EXCEPT !.listed = TRUE, !.existing = existing]
     IN IF existing # Undefined
          THEN /\ dl' = [dl EXCEPT ![r] =
                        [seen EXCEPT !.pc = "done",
                                     !.response = movieOutcome(existing)]]
               /\ UNCHANGED posts
          ELSE /\ dl' = [dl EXCEPT ![r] =
                        [seen EXCEPT !.pc = "postMovie", !.creates = @ + 1,
                                     !.backends = @ \cup {"radarr"}]]
               /\ posts' = posts \cup
                    {[backend |-> "radarr", externalId |-> dl[r].args.tmdbId, by |-> r]}
  /\ UNCHANGED <<radarrMovies, sonarrSeries, radarrQueue, csVars, tl>>

\* GET /api/v3/series answers with the library
DlSeriesListed(r) ==
  /\ dl[r].pc = "listSeries"
  /\ LET existing == existingSeries(sonarrSeries, dl[r].args)
         seen == [dl[r] EXCEPT !.listed = TRUE, !.existing = existing]
     IN IF existing # Undefined
          THEN /\ dl' = [dl EXCEPT ![r] =
                        [seen EXCEPT !.pc = "done", !.response = "seriesExists"]]
               /\ UNCHANGED posts
          ELSE /\ dl' = [dl EXCEPT ![r] =
                        [seen EXCEPT !.pc = "postSeries", !.creates = @ + 1,
                                     !.backends = @ \cup {"sonarr"}]]
               /\ posts' = posts \cup
                    {[backend |-> "sonarr", externalId |-> dl[r].args.tvdbId, by |-> r]}
  /\ UNCHANGED <<radarrMovies, sonarrSeries, radarrQueue, csVars, tl>>

\* POST /api/v3/movie is accepted: the backend adds the movie, without a file.
\* Radarr refuses a movie it already holds (see DlCallFails).
DlMovieCreated(r) ==
  /\ dl[r].pc = "postMovie"
  /\ \A i \in DOMAIN radarrMovies : radarrMovies[i].tmdbId # dl[r].args.tmdbId
  /\ radarrMovies' =
       Append(radarrMovies, RawMovie(Len(radarrMovies) + 1, dl[r].args.tmdbId, FALSE))
  /\ dl' = [dl EXCEPT ![r] = DlRespond(r, "movieRequested")]
  /\ UNCHANGED <<sonarrSeries, posts, radarrQueue, csVars, tl>>

\* POST /api/v3/series is accepted: the backend adds the series
DlSeriesCreated(r) ==
  /\ dl[r].pc = "postSeries"
  /\ \A i \in DOMAIN sonarrSeries : sonarrSeries[i].tvdbId # dl[r].args.tvdbId
  /\ sonarrSeries' =
       Append(sonarrSeries, RawSeries(Len(sonarrSeries) + 1, dl[r].args.tvdbId, 0))
  /\ dl' = [dl EXCEPT ![r] = DlRespond(r, "seriesRequested")]
  /\ UNCHANGED <<radarrMovies, posts, radarrQueue, csVars, tl>>

\* mutant of DlCallFails: the rejected call is issued again
DlCallFailsRetries(r) ==
  /\ inFlight(r)
  /\ dl[r].lists + dl[r].creates < 4
  /\ dl' = [dl EXCEPT ![r] =
              IF dl[r].pc \in {"listMovies", "listSeries"}
                THEN [dl[r] EXCEPT !.lists = @ + 1]
                ELSE [dl[r] EXCEPT !.creates = @ + 1]]
  /\ UNCHANGED <<radarrMovies, sonarrSeries, posts, radarrQueue, csVars, tl>>

\* an awaited call of request_download rejects: catch (err)
DlCallFails(r) ==
  /\ inFlight(r)
  /\ dl' = [dl EXCEPT ![r] = DlRespond(r, "error")]
  /\ UNCHANGED <<radarrMovies, sonarrSeries, posts, radarrQueue, csVars, tl>>

\* the backend finishes a download: a movie of the library gets its file
DownloadCompletes(i) ==
  /\ i \in DOMAIN radarrMovies
  /\ ~radarrMovies[i].hasFile
  /\ radarrMovies' = [radarrMovies EXCEPT
                        ![i] = RawMovie(@.id, @.tmdbId, TRUE)]
  /\ UNCHANGED <<sonarrSeries, dl, posts, radarrQueue, csVars, tl>>

\* the backend imports episode files of a series of the library
SeriesDownloadCompletes(i) ==
  /\ i \in DOMAIN sonarrSeries
  /\ sonarrSeries[i].statistics.sizeOnDisk = 0
  /\ sonarrSeries' = [sonarrSeries EXCEPT ![i] = RawSeries(@.id, @.tvdbId, 2048)]
  /\ UNCHANGED <<radarrMovies, dl, posts, radarrQueue, csVars, tl>>

DlSteps ==
  \/ \E r \in Requests : DlMoviesListed(r)
  \/ \E r \in Requests : DlSeriesListed(r)
  \/ \E r \in Requests : DlMovieCreated(r)
  \/ \E r \in Requests : DlSeriesCreated(r)
  \/ \E r \in Requests : DlCallFails(r)
  \/ \E i \in 1..(MaxLibrary + Cardinality(Requests)) : DownloadCompletes(i)
  \/ \E i \in 1..(MaxLibrary + Cardinality(Requests)) : SeriesDownloadCompletes(i)

\* concurrent calls: a call may arrive while others are in flight
NextAcq ==
  \/ \E r \in Requests, a \in DownloadArgs : RequestDownload(r, a)
  \/ DlSteps

SpecAcq == InitAcq /\ [][NextAcq]_vars

\* calls in succession: the next call arrives after the previous one returned
NextAcqSeq ==
  \/ \E r \in Requests, a \in DownloadArgs : RequestDownloadInSuccession(r, a)
  \/ DlSteps

SpecAcqSeq == InitAcq /\ [][NextAcqSeq]_vars


(***************************************************************************)
(* search_media, get_wanted, get_activity, get_system_status.  None of     *)
(* these cases has a try/catch: a rejected await leaves the handler as an  *)
(* exception (pc = "thrown"), no response is returned.                     *)
(***************************************************************************)
\* largest `limit` argument of search_media
MaxLimit == 2
\* if(!filters.limit){ filters.limit=10; }
DefaultLimit == 10

\* the values of the service argument (mediaType); "" is absent
Services == {"", "movie", "movies", "radarr", "series", "sonarr"}
\* ["movie", "movies", "radarr", "radar"]
RadarrNames == {"movie", "movies", "radarr", "radar"}
\* ["serie", "series", "sonar", "sonarr"]
SonarrNames == {"serie", "series", "sonar", "sonarr"}
\* the values of the system argument of get_system_status
Systems == {"", "radarr", "sonarr", "both"}

SearchArgs ==
  [mediaType : Services, year : {0} \cup Years, title : {0, 1},
   limit : 0..MaxLimit, system : {""}]
ServiceArgs ==
  [mediaType : Services, year : {0}, title : {0}, limit : {0}, system : {""}]
SystemArgs ==
  [mediaType : {""}, year : {0}, title : {0}, limit : {0}, system : Systems]

\* the external series catalogue: a TVDB id determines title and year
TvdbCatalog == TmdbCatalog
\* an entry of GET /api/v3/series/lookup, and GET /api/v3/series/{id}
SeriesLookupEntry(id, tvdbId) ==
  LET base == [tvdbId |-> tvdbId, title |-> TvdbCatalog[tvdbId].title,
               year |-> TvdbCatalog[tvdbId].year,
               statistics |-> [sizeOnDisk |-> 0]]
  IN IF id = 0 THEN base ELSE base @@ [id |-> id]
SeriesLookupEntries ==
  {SeriesLookupEntry(0, t) : t \in 1..(MaxExt + 1)} \cup
  {SeriesLookupEntry(t, t) : t \in (1..(MaxExt + 1)) \cap (1..MaxId)}
FullSeries(id, tvdbId, size) ==
  [id |-> id, tvdbId |-> tvdbId, title |-> TvdbCatalog[tvdbId].title,
   year |-> TvdbCatalog[tvdbId].year, statistics |-> [sizeOnDisk |-> size]]

\* reduceSeriesData: size is formatBytes(series.statistics.sizeOnDisk ?? 0)
reduceSeriesData(s) ==
  LET size == IF Has(s.statistics, "sizeOnDisk") THEN s.statistics.sizeOnDisk ELSE 0
      base == [title |-> s.title, year |-> s.year, tvdbId |-> s.tvdbId,
               size |-> formatBytes(size)]
  IN IF Has(s, "id") THEN base @@ [id |-> s.id] ELSE base

TlRespond(text) == [tl EXCEPT !.pc = "done", !.response = text]

\* search_media arrives: the default limit, the mediaType check, then
\* getRadarrMovies or getSonarrSeries issues its lookup request
SearchMedia(a) ==
  /\ tl.pc = "idle"
  /\ LET filters == [a EXCEPT !.limit = IF a.limit = 0 THEN DefaultLimit ELSE a.limit]
         started == [tl EXCEPT !.name = "search_media", !.args = filters]
     IN tl' = IF a.mediaType = ""
                THEN [started EXCEPT !.pc = "done", !.response = "needMediaType"]
                ELSE [started EXCEPT
                        !.pc = "lookup",
                        !.backend = IF a.mediaType \in RadarrNames
                                      THEN "radarr" ELSE "sonarr",
                        !.apiKey = IF a.mediaType \in RadarrNames
                                     THEN "radarr" ELSE "sonarr",
                        !.gets = @ + 1]
  /\ UNCHANGED <<csVars, dlVars>>

\* the lookup answers; one GET by id is issued for every entry with an id
SearchLookupOk ==
  /\ tl.name = "search_media" /\ tl.pc = "lookup"
  /\ \E data \in (IF tl.backend = "radarr"
                    THEN SeqUpTo(LookupEntries, MaxCand)
                    ELSE SeqUpTo(SeriesLookupEntries, MaxCand)) :
       tl' = [tl EXCEPT !.fetched = data,
                        !.gets = @ + Len(WithId(data)),
                        !.pc = "lookupFull"]
  /\ UNCHANGED <<csVars, dlVars>>

\* mutant of SearchFullOk: the search adds what it found to the library
\* (a create command is sent)
SearchFullOkAdding ==
  /\ tl.name = "search_media" /\ tl.pc = "lookupFull"
  /\ tl' = TlRespond("results")
  /\ posts' = posts \cup {[backend |-> tl.backend, externalId |-> 1, by |-> 0]}
  /\ UNCHANGED <<csVars, radarrMovies, sonarrSeries, dl, radarrQueue>>

\* every GET by id answered: applyFilters(items, filters).map(reduce...) is
\* returned and the handler answers with the JSON text of the results
SearchFullOk ==
  /\ tl.name = "search_media" /\ tl.pc = "lookupFull"
  /\ \E hasFile \in [1..MaxId -> BOOLEAN] :
       LET full(e) ==
             IF ~Has(e, "id") THEN e
             ELSE IF tl.backend = "radarr"
               THEN RawMovie(e.id, e.tmdbId, hasFile[e.id])
               ELSE FullSeries(e.id, e.tvdbId, IF hasFile[e.id] THEN 2048 ELSE 0)
           items == [i \in DOMAIN tl.fetched |-> full(tl.fetched[i])]
           kept == applyFilters(items, tl.args)
       IN tl' = [TlRespond("results") EXCEPT
                   !.fetched = items,
                   !.results = [i \in DOMAIN kept |->
                                  IF tl.backend = "radarr"
                                    THEN reduceMovieData(kept[i])
                                    ELSE reduceSeriesData(kept[i])]]
  /\ UNCHANGED <<csVars, dlVars>>

\* get_wanted arrives: the endpoint, the service check, the API key, then the
\* wanted/missing request
GetWanted(a) ==
  /\ tl.pc = "idle"
  /\ LET service == a.mediaType
         started == [tl EXCEPT !.name = "get_wanted", !.args = a]
     IN tl' = IF service \notin SonarrNames
                THEN [started EXCEPT !.pc = "done", !.response = "serviceRejected"]
                ELSE [started EXCEPT
                        !.pc = "wanted",
                        !.backend = IF service \in RadarrNames
                                      THEN "radarr" ELSE "sonarr",
                        !.apiKey = IF service = "radarr" THEN "radarr" ELSE "sonarr",
                        !.gets = @ + 1]
  /\ UNCHANGED <<csVars, dlVars>>

\* the wanted/missing request answers with its records
WantedOk ==
  /\ tl.name = "get_wanted" /\ tl.pc = "wanted"
  /\ \E records \in SeqUpTo({[text |-> "record"]}, 1) :
       tl' = [TlRespond(IF Len(records) = 0 THEN "noWanted" ELSE "wantedList")
                EXCEPT !.fetched = records]
  /\ UNCHANGED <<csVars, dlVars>>

\* get_activity arrives: the queue request of the named service
GetActivity(a) ==
  /\ tl.pc = "idle"
  /\ LET service == a.mediaType
         started == [tl EXCEPT !.name = "get_activity", !.args = a]
     IN tl' = IF service \in {"radarr", "movies"}
                THEN [started EXCEPT !.pc = "activity", !.backend = "radarr",
                                     !.apiKey = "radarr", !.gets = @ + 1]
              ELSE IF service \in {"sonarr", "series"}
                THEN [started EXCEPT !.pc = "activity", !.backend = "sonarr",
                                     !.apiKey = "sonarr", !.gets = @ + 1]
              ELSE [started EXCEPT !.pc = "done", !.response = "serviceRejected"]
  /\ UNCHANGED <<csVars, dlVars>>

\* the queue request answers with its records
ActivityOk ==
  /\ tl.name = "get_activity" /\ tl.pc = "activity"
  /\ \E records \in SeqUpTo({[text |-> "record"]}, 1) :
       tl' = [TlRespond(IF Len(records) = 0 THEN "noActive" ELSE "activity")
                EXCEPT !.fetched = records]
  /\ UNCHANGED <<csVars, dlVars>>

\* get_system_status arrives: getRadarrSystemStatus issues its three requests
\* (Promise.all), or getSonarrSystemStatus does, or nothing is asked
GetSystemStatus(a) ==
  /\ tl.pc = "idle"
  /\ LET started == [tl EXCEPT !.name = "get_system_status", !.args = a]
     IN tl' = IF a.system \in {"radarr", "both"}
                THEN [started EXCEPT !.pc = "radarrStatus", !.backend = "radarr",
                                     !.apiKey = "radarr", !.gets = @ + 3]
              ELSE IF a.system = "sonarr"
                THEN [started EXCEPT !.pc = "sonarrStatus", !.backend = "sonarr",
                                     !.apiKey = "sonarr", !.gets = @ + 3]
              ELSE [started EXCEPT !.pc = "done", !.response = "systemStatus"]
  /\ UNCHANGED <<csVars, dlVars>>

\* the three requests of one backend answered
SystemStatusOk ==
  /\ tl.name = "get_system_status"
  /\ \/ /\ tl.pc = "radarrStatus"
        /\ tl' = IF tl.args.system = "both"
                   THEN [tl EXCEPT !.pc = "sonarrStatus", !.backend = "sonarr",
                                   !.apiKey = "sonarr", !.gets = @ + 3]
                   ELSE TlRespond("systemStatus")
     \/ /\ tl.pc = "sonarrStatus"
        /\ tl' = TlRespond("systemStatus")
  /\ UNCHANGED <<csVars, dlVars>>

\* the awaited calls of the four tools that can be rejected
toolAwaitsBackend ==
  \/ tl.pc \in {"lookup", "wanted", "activity", "radarrStatus", "sonarrStatus"}
  \/ tl.pc = "lookupFull" /\ Len(WithId(tl.fetched)) > 0

\* an awaited call rejects: getRadarrMovies, getSonarrSeries and the system
\* status helpers rethrow, the case has no try/catch, the exception leaves
\* the handler
ToolCallFails ==
  /\ toolAwaitsBackend
  /\ tl' = [tl EXCEPT !.pc = "thrown", !.failed = TRUE]
  /\ UNCHANGED <<csVars, dlVars>>

\* the call is over; the handler is ready for the next request
ToolReturn ==
  /\ tl.pc \in {"done", "thrown"}
  /\ tl' = TlIdleCall
  /\ UNCHANGED <<csVars, dlVars>>

(***************************************************************************)
(* The server with all six tools.  The handlers share no program state and *)
(* check_status and the four read-only tools take what they read from the  *)
(* payload sets, so their calls are explored one at a time from the        *)
(* initial, empty libraries; request_download calls may overlap each other.*)
(***************************************************************************)
quiet == pc = "idle" /\ tl.pc = "idle" /\ \A r \in Requests : dl[r].pc = "idle"

InitTools ==
  /\ CsInit /\ TlInit
  /\ radarrMovies = <<>> /\ sonarrSeries = <<>>
  /\ dl = [r \in Requests |-> DlIdleRequest]
  /\ posts = {}
  /\ radarrQueue = EmptyQueue

ToolsCheckStatus(a) == quiet /\ CheckStatus(a)
ToolsRequestDownload(r, a) == pc = "idle" /\ tl.pc = "idle" /\ RequestDownload(r, a)

NextTools ==
  \/ \E a \in CheckStatusArgs : ToolsCheckStatus(a)
  \/ GetByIdOk
  \/ ListingOk
  \/ LookupOk
  \/ LookupFullOk
  \/ TitleResolve
  \/ QueuePageOk
  \/ CallFails
  \/ Return
  \/ \E r \in Requests, a \in DownloadArgs : ToolsRequestDownload(r, a)
  \/ DlSteps
  \/ \E a \in SearchArgs : quiet /\ SearchMedia(a)
  \/ SearchLookupOk
  \/ SearchFullOk
  \/ \E a \in ServiceArgs : quiet /\ GetWanted(a)
  \/ WantedOk
  \/ \E a \in ServiceArgs : quiet /\ GetActivity(a)
  \/ ActivityOk
  \/ \E a \in SystemArgs : quiet /\ GetSystemStatus(a)
  \/ SystemStatusOk
  \/ ToolCallFails
  \/ ToolReturn

SpecTools == InitTools /\ [][NextTools]_vars


(***************************************************************************)
(* check_status against a live transfer queue: every page request is       *)
(* answered from the queue as it is at that moment, and the queue changes  *)
(* while the scan is suspended at an await.                                *)
(***************************************************************************)
\* most changes of the queue in one run
MaxChanges == 1
\* the numbers of records ahead of `entry` a run starts from, and the most
\* the queue grows to
AheadChoices == {0, pageSize - 1, pageSize}
MaxAhead == pageSize + 1

InitialQueues ==
  [ahead : AheadChoices,
   entry : {Undefined} \cup {QueueEntry(m, MaxSize, 1) : m \in 1..MaxId},
   behind : {0, 1}, changes : {0}, entryChanged : {FALSE}]

queueTotal(q) == q.ahead + (IF q.entry # Undefined THEN 1 ELSE 0) + q.behind

\* the answer to GET /api/v3/queue?page=p&pageSize=100 from queue q: the
\* records at positions (p-1)*100+1 .. p*100; one record stands for the
\* records of other movies before `entry` on the page, one for those after
livePage(q, p) ==
  LET first == (p - 1) * pageSize + 1
      last == p * pageSize
      total == queueTotal(q)
      other == QueueEntry(MaxId + 1, MaxSize, MaxSize)
      entryOn == q.entry # Undefined /\ first <= q.ahead + 1 /\ q.ahead + 1 <= last
      aheadOn == first <= q.ahead
      behindFirst == total - q.behind + 1
      behindOn == q.behind > 0 /\ behindFirst <= last /\ first <= total
  IN [records |-> (IF aheadOn THEN <<other>> ELSE <<>>)
                    \o (IF entryOn THEN <<q.entry>> ELSE <<>>)
                    \o (IF behindOn THEN <<other>> ELSE <<>>),
      totalRecords |-> total]

\* the queue page request answers from the live queue
QueuePageLive ==
  /\ pc = "queue"
  /\ QueuePageAnswers(livePage(radarrQueue, page))

\* the backend's queue changes while a scan is suspended: a record of
\* another movie is added or removed, or `entry` itself is removed
QueueChanges ==
  /\ pc = "queue"
  /\ radarrQueue.changes < MaxChanges
  /\ \E q \in {[radarrQueue EXCEPT !.ahead = @ - 1],
               [radarrQueue EXCEPT !.ahead = @ + 1],
               [radarrQueue EXCEPT !.behind = @ - 1],
               [radarrQueue EXCEPT !.behind = @ + 1],
               [radarrQueue EXCEPT !.entry = Undefined, !.entryChanged = TRUE]} :
       /\ q # radarrQueue
       /\ q.ahead \in 0..MaxAhead /\ q.behind \in 0..1
       /\ radarrQueue' = [q EXCEPT !.changes = @ + 1]
  /\ UNCHANGED <<csVars, radarrMovies, sonarrSeries, dl, posts, tl>>

InitRace ==
  /\ CsInit /\ TlInit
  /\ radarrMovies = <<>> /\ sonarrSeries = <<>>
  /\ dl = <<>> /\ posts = <<>>
  /\ radarrQueue \in InitialQueues

NextRace ==
  \/ \E a \in CheckStatusArgs : CheckStatus(a)
  \/ GetByIdOk
  \/ ListingOk
  \/ LookupOk
  \/ LookupFullOk
  \/ TitleResolve
  \/ QueuePageLive
  \/ QueueChanges
  \/ CallFails
  \/ Return

SpecRace == InitRace /\ [][NextRace]_vars


(***************************************************************************)
(* check_status by internal id against a transfer queue that does not      *)
(* change during the scan: every page reports the same totalRecords.       *)
(***************************************************************************)
SteadyQueues ==
  [ahead : {0, 1, pageSize - 1, pageSize, 2 * pageSize - 1, 2 * pageSize, MaxTotal - 1},
   entry : {Undefined} \cup {QueueEntry(m, MaxSize, 1) : m \in 1..MaxId},
   behind : {0, 1}, changes : {0}, entryChanged : {FALSE}]

InitSteady ==
  /\ CsInit /\ TlInit
  /\ radarrMovies = <<>> /\ sonarrSeries = <<>>
  /\ dl = <<>> /\ posts = <<>>
  /\ radarrQueue \in SteadyQueues

NextSteady ==
  \/ \E a \in ScanArgs : CheckStatus(a)
  \/ GetByIdOk
  \/ QueuePageLive
  \/ CallFails
  \/ Return

SpecSteady == InitSteady /\ [][NextSteady]_vars


(***************************************************************************)
(* Properties.                                                             *)
(***************************************************************************)
\* two request_download calls target the same external id of one backend
sameTarget(q, r) ==
  \/ dl[q].args.tmdbId # 0 /\ dl[q].args.tmdbId = dl[r].args.tmdbId
  \/ /\ dl[q].args.tmdbId = 0 /\ dl[r].args.tmdbId = 0
     /\ dl[q].args.tvdbId # 0 /\ dl[q].args.tvdbId = dl[r].args.tvdbId
created(r) == dl[r].response \in {"movieRequested", "seriesRequested"}
alreadyPresent(r) ==
  dl[r].response \in {"movieDownloaded", "movieMayBeDownloading", "seriesExists"}

\* C1: request_download called twice in succession for the same external id:
\* once the first call's create was accepted, the second call issues no
\* create, and when its listing read answered it finds the record there and
\* returns an already-present outcome.
C1_SecondCallShortCircuits ==
  \A q, r \in Requests :
    (q < r /\ sameTarget(q, r) /\ created(q)) =>
      /\ dl[r].creates = 0
      /\ Cardinality({c \in posts : c.by \in {q, r}}) <= 1
      /\ (dl[r].listed => alreadyPresent(r))

\* C1 witness: the first call created the item and the second call returned
\* already-present
C1_Witness ==
  \E q, r \in Requests :
    /\ q < r /\ sameTarget(q, r) /\ created(q)
    /\ dl[r].pc = "done" /\ alreadyPresent(r)

\* two calls overlapped: one arrived while the other was in flight
concurrent(q, r) == q \in dl[r].overlap \/ r \in dl[q].overlap

\* C2: of two concurrently in-flight request_download calls for the same
\* external id, at most one issues the create command.
C2_NoDuplicateCreateUnderConcurrency ==
  \A q, r \in Requests :
    (q # r /\ sameTarget(q, r) /\ concurrent(q, r)) =>
      dl[q].creates + dl[r].creates <= 1

\* the resolved record is on disk: it has a file (raw record) or a nonzero
\* stored size (reduced record)
onDisk(m) == Truthy(m, "hasFile") \/ Truthy(m, "downloaded")

\* C3: a resolved record that is on disk never triggers a queue page request,
\* whichever branch resolved it.
C3_OnDiskNeverCorrelates ==
  (movie # Undefined /\ onDisk(movie)) => calls.queue = 0

CeilDiv(a, b) == (a + b - 1) \div b
Max(a, b) == IF a > b THEN a ELSE b

\* C4 as claimed: when correlation has ended, the page requests issued number
\* at most ceil(totalRecords / pageSize).
C4_PagesAtMostCeil ==
  (pc = "done" /\ response.kind = "status" /\ calls.queue > 0) =>
    calls.queue <= CeilDiv(totalRecords, pageSize)

\* C4 amended: the page requests issued never number more than
\* max(1, ceil(T / pageSize)), T the largest totalRecords reported so far in
\* the scan; with no more than 250 records reported, at most 3.
C4_PagesAtMostCeilOrOne ==
  /\ calls.queue <= Max(1, CeilDiv(maxTotal, pageSize))
  /\ (maxTotal <= 250 => calls.queue <= 3)

\* C4 witness: a scan without a match that fetched three pages
C4_Witness ==
  pc = "done" /\ response.kind = "status" /\ ~found /\ calls.queue = 3

\* the on-disk metadata of a snapshot is populated from the record
populated(st) == st.size # NA \/ st.added # NA \/ st.ratings # EmptyList

\* C5: no movie status snapshot has in_queue = true together with populated
\* on-disk metadata; the metadata is populated only for a record with a
\* file, and then in_queue is false and queue is empty.
C5_SnapshotExclusive ==
  (status # Undefined /\ args.mediaType = "movie") =>
    /\ ~(status.in_queue /\ populated(status))
    /\ populated(status) =>
         /\ Truthy(movie, "hasFile")
         /\ ~status.in_queue
         /\ status.queue = EmptyObject
         /\ calls.queue = 0

\* C5 witness: a snapshot with populated on-disk metadata was returned
C5_Witness ==
  /\ pc = "done" /\ response.kind = "status" /\ args.mediaType = "movie"
  /\ populated(response.status)


\* the first position of sc that attains the maximum of sc
firstMax(sc) ==
  CHOOSE k \in DOMAIN sc :
    /\ \A j \in DOMAIN sc : sc[j] <= sc[k]
    /\ \A j \in DOMAIN sc : j < k => sc[j] < sc[k]

\* the candidates of the scoring example: "The Matrix" (1999) and
\* "The Matrix Reloaded" (2003), input title "Matrix", year 1999
exampleCandidates ==
  <<reduceMovieData(RawMovie(1, 1, FALSE)), reduceMovieData(RawMovie(2, 2, FALSE))>>

\* C6: the title branch resolves to the first retained candidate, in input
\* order, that attains the maximum score; the selection is a function of the
\* candidate list and the input; the scoring example selects "The Matrix".
C6_FirstMaxWins ==
  [][/\ (pc = "titleResults" /\ Len(candidatesOf(results)) > 0) =>
          LET c == candidatesOf(results)
              sc == [i \in DOMAIN c |-> scoreOf(c[i], NormTitle[args.title], args.year)]
          IN movie' = c[firstMax(sc)]
     /\ Titles[fuzzyMatch(exampleCandidates, 3, 1999).title]
          = <<"T","h","e"," ","M","a","t","r","i","x">>
    ]_vars

\* C6 witness: two candidates tied and the first one, catalogue entry 2, was
\* selected
C6_Witness ==
  /\ Len(scores) = 2 /\ scores[1] = scores[2]
  /\ movie # Undefined /\ movie.tmdbId = 2

\* the score the claim assigns to candidate m for the request's title and year
claimedScore(m, a) ==
  LET cand == normalize(Titles[m.title])
      input == normalize(Titles[a.title])
  IN (IF cand = input THEN 100 ELSE IF includes(cand, input) THEN 50 ELSE 0)
     + (IF a.year # 0 /\ m.year = a.year THEN 20 ELSE 0)

\* C7: every candidate's score is 100 for equal normalized titles, else 50
\* when the candidate's normalized title contains the input's, else 0, plus
\* 20 for a supplied and equal year; so it is one of 0, 20, 50, 70, 100, 120.
C7_ScoreValues ==
  [][(pc = "titleResults" /\ Len(candidatesOf(results)) > 0) =>
       LET c == candidatesOf(results)
       IN /\ scores' = [i \in DOMAIN c |-> claimedScore(c[i], args)]
          /\ \A i \in DOMAIN c : scores'[i] \in {0, 20, 50, 70, 100, 120}
    ]_vars

\* C7 witness: a candidate scored 120 (equal normalized titles and year)
C7_Witness == \E i \in DOMAIN scores : scores[i] = 120

\* C8: for a matched queue record with size 0 the progress is the sentinel
\* "0%"; for size > 0 it is (size - sizeleft) / size * 100 to two decimals;
\* it is never NaN, and the snapshot is returned (nothing is thrown).
C8_ProgressGuard ==
  matched # Undefined =>
    LET p == status.queue.downloadProgress
        size == matched.size
        done100 == (matched.size - matched.sizeleft) * 10000
    IN /\ p.text \notin {"NaN%", "Infinity%"}
       /\ size = 0 => p = [text |-> "0%"]
       /\ size > 0 =>
            /\ p.text = "percent"
            /\ 2 * (p.hundredths * size - done100) <= size
            /\ 2 * (done100 - p.hundredths * size) <= size
       /\ pc = "done" /\ response.kind = "status" /\ response.status.in_queue

\* C8 witness: a matched queue record with size 0 was reported
C8_Witness == matched # Undefined /\ matched.size = 0 /\ pc = "done"

\* the external id of the request's catalog
externalIdOf(a) == IF a.mediaType = "movie" THEN a.tmdbId ELSE a.tvdbId

\* C9: exactly one resolution branch runs, chosen in the order internal id >
\* external id > title: the calls of the branches of lower and higher
\* precedence are not issued, and the record is the one the chosen field names.
C9_IdentityPrecedence ==
  pc # "idle" =>
    /\ args.id # 0 =>
         /\ calls.getById = 1 /\ calls.listAll = 0 /\ calls.lookup = 0
         /\ movie # Undefined => movie.id = args.id
         /\ series # Undefined => series.id = args.id
    /\ (args.id = 0 /\ externalIdOf(args) # 0) =>
         /\ calls.getById = 0 /\ calls.listAll = 1 /\ calls.lookup = 0
         /\ movie # Undefined => movie.tmdbId = args.tmdbId
         /\ series # Undefined => series.tvdbId = args.tvdbId
    /\ (args.id = 0 /\ externalIdOf(args) = 0
          /\ args.mediaType = "movie" /\ args.title # 0) =>
         /\ calls.listAll = 0 /\ calls.lookup = 1

\* C9 witness: a request with all three fields was answered with a snapshot
C9_Witness ==
  /\ pc = "done" /\ response.kind = "status"
  /\ args.id # 0 /\ externalIdOf(args) # 0 /\ args.title # 0

\* C10: when a backend call of check_status fails, the response is the error
\* outcome; a not-found response is given only after the listing or lookup
\* call succeeded and no record matched.
C10_FailureIsNotNotFound ==
  /\ failed => (pc = "done" /\ response.kind = "error")
  /\ (pc = "done" /\ response.kind = "notFound") =>
       /\ ~failed
       /\ calls.listAll + calls.lookup = 1
       /\ movie = Undefined /\ series = Undefined

\* C10 witness: a queue page request failed after a page had been fetched
C10_Witness == failed /\ calls.queue = 2

\* C11: in the internal-id branch a single getById lookup is made, and when
\* the backend rejects it (non-2xx) the outcome is the not-found response,
\* not the error response.
C11_IdLookupFailureIsNotFound ==
  (pc = "done" /\ args.id # 0) =>
    /\ calls.getById = 1
    /\ (failed /\ movie = Undefined /\ series = Undefined) =>
         response.kind = "notFound"


\* the calls of request_download r that reached a backend
dlCalls(r) == dl[r].lists + dl[r].creates + Cardinality({c \in posts : c.by = r})

\* C12 as claimed: a check_status request is rejected as lacking
\* identification exactly when none of internal id, external id and title is
\* supplied, for either catalog, and a request_download exactly when no
\* external id is supplied; no backend call was issued in a rejection.
C12_RejectedIffNothingSupplied ==
  /\ pc = "done" =>
       /\ response.kind = "missingId" <=>
            (args.id = 0 /\ externalIdOf(args) = 0 /\ args.title = 0)
       /\ response.kind = "missingId" => calls = NoCalls
  /\ \A r \in Requests :
       dl[r].pc = "done" =>
         /\ dl[r].response = "missingId" <=>
              (dl[r].args.tmdbId = 0 /\ dl[r].args.tvdbId = 0)
         /\ dl[r].response = "missingId" => dlCalls(r) = 0

\* C12 amended: a movie request is rejected exactly when none of id, tmdbId
\* and title is supplied, a series request exactly when neither id nor tvdbId
\* is supplied (a title does not identify a series), a request_download
\* exactly when neither tmdbId nor tvdbId is supplied; no backend call was
\* issued in a rejection.
C12_RejectedIffNoUsableIdentification ==
  /\ pc = "done" =>
       /\ response.kind = "missingId" <=>
            IF args.mediaType = "movie"
              THEN args.id = 0 /\ args.tmdbId = 0 /\ args.title = 0
              ELSE args.id = 0 /\ args.tvdbId = 0
       /\ response.kind = "missingId" => calls = NoCalls
  /\ \A r \in Requests :
       dl[r].pc = "done" =>
         /\ dl[r].response = "missingId" <=>
              (dl[r].args.tmdbId = 0 /\ dl[r].args.tvdbId = 0)
         /\ dl[r].response = "missingId" => dlCalls(r) = 0

\* C12 witness: a series request that carries only a title was rejected
C12_Witness ==
  /\ pc = "done" /\ response.kind = "missingId"
  /\ args.mediaType = "series" /\ args.title # 0 /\ calls = NoCalls


\* C13: for every tool, when a backend call fails the call ends by returning
\* the error response; no exception leaves the handler.
C13_FailureReturnsTaggedError ==
  /\ failed => (pc = "done" /\ response.kind = "error")
  /\ tl.failed => (tl.pc = "done" /\ tl.response = "error")
  /\ tl.pc # "thrown"


\* C14: search_media, check_status, get_system_status, get_activity and
\* get_wanted send no create and no other mutating call: every step of
\* theirs leaves the create log and both libraries unchanged; a create is
\* sent only by request_download after its listing read, and a library gets
\* a new record only when such a create is accepted.
C14_OnlyRequestDownloadMutates ==
  [][/\ (csVars' # csVars \/ tl' # tl) =>
          UNCHANGED <<posts, radarrMovies, sonarrSeries>>
     /\ posts' # posts =>
          \E r \in Requests :
            /\ dl[r].pc \in {"listMovies", "listSeries"}
            /\ dl'[r].pc \in {"postMovie", "postSeries"}
            /\ posts' = posts \cup {[backend |-> IF dl[r].pc = "listMovies"
                                                   THEN "radarr" ELSE "sonarr",
                                      externalId |-> IF dl[r].pc = "listMovies"
                                                     THEN dl[r].args.tmdbId
                                                     ELSE dl[r].args.tvdbId,
                                      by |-> r]}
     /\ (Len(radarrMovies') # Len(radarrMovies)
           \/ Len(sonarrSeries') # Len(sonarrSeries)) =>
          \E r \in Requests :
            dl[r].pc \in {"postMovie", "postSeries"} /\ created(r)'
    ]_vars

\* C14 witness: a search returned results and nothing was created
C14_Witness ==
  /\ tl.name = "search_media" /\ tl.pc = "done" /\ Len(tl.results) > 0
  /\ tl.gets > 1 /\ posts = {} /\ radarrMovies = <<>> /\ sonarrSeries = <<>>


\* the listing request_download r is waiting for holds a record with the
\* requested external id
listedPresent(r) ==
  IF dl[r].pc = "listMovies"
    THEN \E i \in DOMAIN radarrMovies : radarrMovies[i].tmdbId = dl[r].args.tmdbId
    ELSE \E i \in DOMAIN sonarrSeries : sonarrSeries[i].tvdbId = dl[r].args.tvdbId

\* C15: when the listing read of a request_download answers, the create
\* command is issued if and only if the listing holds no record with the
\* requested external id; when a record is found, with or without a file,
\* the call returns already-present and sends nothing after the listing.
C15_CreateIffNotListed ==
  [][\A r \in Requests :
       (dl[r].pc \in {"listMovies", "listSeries"} /\ dl'[r].listed) =>
         /\ dl'[r].creates = 1 <=> ~listedPresent(r)
         /\ ~listedPresent(r) =>
              /\ dl'[r].pc \in {"postMovie", "postSeries"}
              /\ \E c \in posts' \ posts : c.by = r
         /\ listedPresent(r) =>
              /\ dl'[r].pc = "done" /\ alreadyPresent(r)'
              /\ dl'[r].creates = 0
              /\ UNCHANGED <<posts, radarrMovies, sonarrSeries>>
    ]_vars

\* C15 witness: a movie without a file and a series were found by the guard
\* of two calls, and no create was sent
C15_Witness ==
  \E q, r \in Requests :
    /\ dl[q].response = "movieMayBeDownloading" /\ dl[r].response = "seriesExists"
    /\ posts = {}


\* the record has files on disk
filePresent(rec) ==
  IF Has(rec, "hasFile") THEN rec.hasFile ELSE rec.statistics.sizeOnDisk > 0
\* two records of one catalog that differ only in file presence
differOnlyInFile(a, b) ==
  /\ a # Undefined /\ b # Undefined
  /\ Has(a, "tmdbId") = Has(b, "tmdbId")
  /\ a.id = b.id
  /\ IF Has(a, "tmdbId") THEN a.tmdbId = b.tmdbId ELSE a.tvdbId = b.tvdbId
  /\ filePresent(a) # filePresent(b)

\* C16 as claimed: for movies and series alike, two pre-existing records
\* that differ only in file presence give different already-present
\* outcomes.
C16_OutcomeTellsFilePresence ==
  \A q, r \in Requests :
    (alreadyPresent(q) /\ alreadyPresent(r)
       /\ differOnlyInFile(dl[q].existing, dl[r].existing)) =>
      dl[q].response # dl[r].response

\* C16 amended: for a movie the already-present outcome tells whether the
\* found record has a file ("downloaded" for hasFile, "may be downloading"
\* otherwise), so two movie records differing only in file presence give
\* different outcomes; for a series the outcome is the one "already exists"
\* message whatever files the record has.
C16_MovieOutcomeTellsFilePresence ==
  /\ \A r \in Requests :
       alreadyPresent(r) =>
         IF Has(dl[r].existing, "tmdbId")
           THEN dl[r].response = IF dl[r].existing.hasFile
                                   THEN "movieDownloaded"
                                   ELSE "movieMayBeDownloading"
           ELSE dl[r].response = "seriesExists"
  /\ \A q, r \in Requests :
       (alreadyPresent(q) /\ alreadyPresent(r)
          /\ differOnlyInFile(dl[q].existing, dl[r].existing)
          /\ Has(dl[q].existing, "tmdbId")) =>
         dl[q].response # dl[r].response

\* C16 witness: two calls found the same movie, one before and one after its
\* file arrived, and returned different outcomes
C16_Witness ==
  \E q, r \in Requests :
    /\ differOnlyInFile(dl[q].existing, dl[r].existing)
    /\ dl[q].response = "movieMayBeDownloading"
    /\ dl[r].response = "movieDownloaded"


\* C17: within one request_download the listing and the create are each
\* issued at most once; a rejected call ends the request with the error
\* response and nothing is sent again; after a rejected listing no create was
\* sent; the created outcome is given only when the create was accepted, and
\* an outcome once returned does not change.
C17_ErrorsSurfacedNotRetried ==
  [][\A r \in Requests :
       /\ dl'[r].lists <= 1 /\ dl'[r].creates <= 1
       /\ Cardinality({c \in posts' : c.by = r}) <= 1
       /\ (inFlight(r) /\ dl'[r].response = "error") =>
            /\ dl'[r].pc = "done"
            /\ dl'[r].lists = dl[r].lists /\ dl'[r].creates = dl[r].creates
            /\ UNCHANGED <<posts, radarrMovies, sonarrSeries>>
       /\ (dl[r].pc \in {"listMovies", "listSeries"}
             /\ dl'[r].response = "error") =>
            /\ dl'[r].creates = 0
            /\ \A c \in posts' : c.by # r
       /\ (created(r)' /\ ~created(r)) =>
            /\ dl[r].pc \in {"postMovie", "postSeries"}
            /\ Len(radarrMovies') + Len(sonarrSeries')
                 = Len(radarrMovies) + Len(sonarrSeries) + 1
       /\ dl[r].pc = "done" => dl'[r] = dl[r]
    ]_vars

\* C17 witness: the create of a request was rejected and the request
\* returned the error response
C17_Witness ==
  \E r \in Requests :
    /\ dl[r].pc = "done" /\ dl[r].response = "error"
    /\ dl[r].listed /\ dl[r].creates = 1


\* the positions of items whose year passes the year predicate
matchingPositions(items, year) ==
  {i \in DOMAIN items : year = 0 \/ items[i].year = year}
\* the k-th smallest element of the set of positions S
kth(S, k) == CHOOSE i \in S : Cardinality({j \in S : j <= i}) = k
Min(a, b) == IF a < b THEN a ELSE b
\* three items of which exactly the second has year 2010
filterFixture ==
  <<[id |-> 1, year |-> 2009], [id |-> 2, year |-> 2010], [id |-> 3, year |-> 2011]>>

\* C18: the results of a search are the reduced forms of a subsequence of
\* the fetched items, in input order: the first `limit` items among those
\* whose year equals the supplied year (all items when no year is supplied);
\* so every result has the supplied year and there are at most `limit`
\* results.  {year: 2010, limit: 1} over the three-item fixture yields
\* exactly the item of 2010.
C18_FilterPipeline ==
  /\ (tl.name = "search_media" /\ tl.pc = "done" /\ tl.response = "results") =>
       LET items == tl.fetched
           M == matchingPositions(items, tl.args.year)
           n == Len(tl.results)
       IN /\ n = Min(tl.args.limit, Cardinality(M))
          /\ n <= tl.args.limit
          /\ \A k \in 1..n :
               /\ tl.results[k] = IF tl.backend = "radarr"
                                    THEN reduceMovieData(items[kth(M, k)])
                                    ELSE reduceSeriesData(items[kth(M, k)])
               /\ tl.args.year # 0 => tl.results[k].year = tl.args.year
  /\ applyFilters(filterFixture, [year |-> 2010, limit |-> 1])
       = <<[id |-> 2, year |-> 2010]>>

\* C18 witness: with a year and limit 1, the first of two fetched items was
\* of another year and the second one is the result
C18_Witness ==
  /\ tl.name = "search_media" /\ tl.pc = "done" /\ tl.response = "results"
  /\ Len(tl.fetched) = 2 /\ tl.args.year # 0 /\ tl.args.limit = 1
  /\ tl.fetched[1].year # tl.args.year /\ Len(tl.results) = 1


\* C19: when the queue changes between page fetches, a queue entry of the
\* resolved movie that stays in the queue during the whole correlation is
\* found: the snapshot of a scan that ran to its end has in_queue = true.
C19_StayingEntryIsFound ==
  (/\ pc = "done" /\ response.kind = "status" /\ calls.queue > 0
   /\ radarrQueue.entry # Undefined /\ ~radarrQueue.entryChanged
   /\ radarrQueue.entry.movieId = movie.id) =>
    response.status.in_queue


\* C20 as claimed: for a movie and for a series alike, a resolved record
\* without a local file is correlated against the queue and the snapshot
\* carries the in_queue result.
C20_BothCatalogsCorrelated ==
  (pc = "done" /\ response.kind = "status") =>
    /\ (args.mediaType = "movie" /\ ~Truthy(movie, "hasFile")) =>
         calls.queue > 0 /\ Has(response.status, "in_queue")
    /\ (args.mediaType = "series" /\ ~filePresent(series)) =>
         calls.queue > 0 /\ Has(response.status, "in_queue")

\* C20 amended: only a movie is correlated.  A resolved movie whose hasFile
\* is falsy is looked for in the movie queue and its snapshot carries
\* in_queue, true with the projection of the matched record or false with
\* the empty queue object; for a series no queue request is made and the
\* snapshot has no in_queue.
C20_OnlyMoviesCorrelated ==
  /\ (pc = "done" /\ response.kind = "status" /\ args.mediaType = "movie") =>
       /\ Has(response.status, "in_queue")
       /\ ~Truthy(movie, "hasFile") =>
            /\ calls.queue > 0
            /\ IF response.status.in_queue
                 THEN response.status.queue = queueProjection(matched)
                 ELSE response.status.queue = EmptyObject
  /\ (pc # "idle" /\ args.mediaType = "series") =>
       /\ calls.queue = 0
       /\ status # Undefined => ~Has(status, "in_queue")

\* C20 witness: a series without files was resolved and its snapshot was
\* returned without a queue request
C20_Witness ==
  /\ pc = "done" /\ response.kind = "status" /\ args.mediaType = "series"
  /\ ~filePresent(series) /\ calls.queue = 0

\* the values the inputSchema of get_wanted allows for mediaType
WantedSchemaEnum == {"radarr", "sonarr"}

\* C21: get_wanted accepts each value its schema allows: for "radarr" it asks
\* the movie backend's wanted/missing list with the movie backend's API key
\* and returns the list, for "sonarr" the same against the series backend;
\* the rejection is returned only for a value that names neither service.
C21_WantedAcceptsSchemaValues ==
  (tl.name = "get_wanted" /\ tl.pc # "idle") =>
    /\ tl.args.mediaType \in WantedSchemaEnum =>
         /\ tl.response # "serviceRejected"
         /\ tl.gets = 1
         /\ tl.backend = tl.args.mediaType /\ tl.apiKey = tl.args.mediaType
         /\ tl.pc = "done" => tl.response \in {"noWanted", "wantedList"}
    /\ tl.response = "serviceRejected" =>
         (tl.args.mediaType \notin WantedSchemaEnum /\ tl.gets = 0)

\* a queue page answer holds a record of movie m
holdsEntryOf(data, m) ==
  \E i \in DOMAIN data.records : data.records[i].movieId = m.id

\* a step in which a queue page request is answered
pageAnswered == pc = "queue" /\ ~failed'

\* C22: once an answered queue page holds a record whose movieId is the
\* resolved id, the handler returns at once with in_queue = true and issues
\* no further queue page request, also when totalRecords says that pages
\* remain; the match is on the page asked last.
C22_EarlyExitOnMatch ==
  [][/\ (pageAnswered /\ holdsEntryOf(lastPage', movie)) =>
          /\ pc' = "done" /\ response'.kind = "status"
          /\ response'.status.in_queue
          /\ calls'.queue = calls.queue /\ page' = page
          /\ calls'.queue = page'
     /\ (found /\ ~(pc = "done" /\ pc' = "idle")) =>
          (calls'.queue = calls.queue /\ pc' = "done")
    ]_vars

\* C22 witness: the match was on page 1 while totalRecords reported more than
\* two pages, and one page request was issued
C22_Witness ==
  /\ pc = "done" /\ found /\ calls.queue = 1
  /\ holdsEntryOf(lastPage, movie)
  /\ totalRecords > 2 * pageSize

\* C23: queue page requests are issued one at a time, the k-th request asks
\* page k (so page 1 first, then increasing by 1, none skipped or repeated),
\* a request follows only the answer to the one before it, and after an
\* answer to page n without a match the scan continues exactly when
\* n * pageSize is below the totalRecords of that same answer.
C23_PagesInOrderFreshTotal ==
  [][/\ calls'.queue > calls.queue =>
          /\ calls'.queue = calls.queue + 1
          /\ page' = calls'.queue /\ pc' = "queue"
          /\ IF calls.queue = 0 THEN pc # "queue" ELSE pageAnswered /\ page' = page + 1
     /\ (pageAnswered /\ ~holdsEntryOf(lastPage', movie)) =>
          /\ totalRecords' = lastPage'.totalRecords
          /\ IF page * pageSize < lastPage'.totalRecords
               THEN pc' = "queue" /\ calls'.queue = calls.queue + 1
               ELSE pc' = "done" /\ calls'.queue = calls.queue
    ]_vars

\* C23 witness: page 1 reported more than two pages of records, page 2
\* reported no more than two, and the scan stopped after page 2
C23_Witness ==
  /\ pc = "done" /\ ~found /\ ~failed /\ calls.queue = 2
  /\ maxTotal > 2 * pageSize /\ lastPage.totalRecords <= 2 * pageSize

\* C24: with every queue page request completing and totalRecords bounded
\* (it may change from page to page), a scan that has begun ends; without a
\* match it ends at the first page n with n * pageSize >= the totalRecords of
\* the answer to page n, and the snapshot then says in_queue = false.
C24_ScanTerminates ==
  /\ (pc = "queue") ~> (pc = "done")
  /\ [][(pageAnswered /\ ~holdsEntryOf(lastPage', movie)) =>
          /\ lastPage'.totalRecords <= MaxTotal
          /\ pc' = "done" <=> page * pageSize >= lastPage'.totalRecords
          /\ pc' = "done" =>
               /\ response'.kind = "status" /\ ~response'.status.in_queue
               /\ response'.status.queue = EmptyObject
               /\ calls'.queue = page
       ]_vars

\* C24 witness: a scan of three pages without a match ended with
\* in_queue = false, the reported totalRecords having changed on the way
C24_Witness ==
  /\ pc = "done" /\ response.kind = "status" /\ calls.queue = 3
  /\ ~response.status.in_queue /\ lastPage.totalRecords < maxTotal

\* the resolution calls of a check_status request issued so far
resolutionCalls == calls.getById + calls.listAll + calls.lookup

\* C25: in every check_status execution the resolution calls have all
\* completed before the first queue page request is issued, none is issued
\* after it, and a request whose resolution ended in not-found, in the
\* missing-identifier rejection or in a backend error is answered without a
\* single queue page request; the response is terminal.
C25_ResolutionPrecedesCorrelation ==
  [][/\ calls'.queue > 0 =>
          /\ pc' \in {"queue", "done"} /\ movie' # Undefined
          /\ resolutionCalls' > 0
          /\ calls.queue > 0 => resolutionCalls' = resolutionCalls
     /\ (pc' = "done" /\ (response'.kind \in {"notFound", "missingId"}
                          \/ (response'.kind = "error" /\ movie' = Undefined))) =>
          calls'.queue = 0
     /\ pc = "done" => (pc' = "idle" /\ calls'.queue = 0)
    ]_vars

\* C25 witness: the title branch made its lookup and a lookup by id, and a
\* queue page request followed
C25_Witness ==
  calls.lookup = 1 /\ calls.getById > 0 /\ calls.queue > 0

\* the elements of a sequence
Range(seq) == {seq[i] : i \in DOMAIN seq}

\* C26: in the title branch the results of the filter pipeline (year, then
\* the cap of TitleLimit) are narrowed to the candidates that carry an
\* internal id; the outcome is not-found exactly when none is retained, and
\* otherwise the resolved record is one of the retained candidates, so it
\* carries an internal id and is never a lookup-only suggestion.
C26_TitleBranchOutcome ==
  [][/\ pc = "lookupFull" =>
          /\ Len(results') <= TitleLimit
          /\ args.year # 0 => \A i \in DOMAIN results' : results'[i].year = args.year
     /\ pc = "titleResults" =>
          LET retained == {r \in Range(results) : Has(r, "id")}
          IN /\ pc' = "done" /\ response'.kind = "notFound" <=> retained = {}
             /\ retained = {} => (movie' = Undefined /\ calls'.queue = 0)
             /\ retained # {} => (movie' \in retained /\ Has(movie', "id"))
    ]_vars

\* C26 witness: the title branch resolved a library member out of two
\* retained candidates
C26_Witness ==
  /\ calls.lookup = 1 /\ Len(scores) = 2
  /\ movie # Undefined /\ Has(movie, "id")

\* C26, the not-found side: the lookup named a library member, the year
\* filter dropped it, and nothing was retained
C26_WitnessNotFound ==
  /\ pc = "done" /\ response.kind = "notFound"
  /\ calls.lookup = 1 /\ calls.getById > 0

\* the library that the external-id branch of the request lists, and the
\* field it compares
listedLibrary == IF args.mediaType = "movie" THEN radarrMovies ELSE sonarrSeries
externalField == IF args.mediaType = "movie" THEN "tmdbId" ELSE "tvdbId"
\* the positions of the listed library whose external id is the requested one
externalMatches ==
  {i \in DOMAIN listedLibrary : listedLibrary[i][externalField] = externalIdOf(args)}
\* the record the request resolved
resolved == IF args.mediaType = "movie" THEN movie ELSE series

\* C27: check_status with an external id and no internal id issues the
\* listing request of its catalog once and nothing else for resolution; once
\* the listing answered, the resolved record is the one at the lowest
\* position of the listing whose external id is the requested one, and when
\* there is none the response is not-found and no further backend call is
\* made.
C27_ExternalBranchFirstInListing ==
  (pc # "idle" /\ args.id = 0 /\ externalIdOf(args) # 0) =>
    /\ calls.listAll = 1 /\ calls.getById = 0 /\ calls.lookup = 0
    /\ (pc # "listing" /\ (failed => calls.queue > 0)) =>
         IF externalMatches = {}
           THEN /\ pc = "done" /\ response.kind = "notFound"
                /\ resolved = Undefined /\ calls.queue = 0
           ELSE /\ resolved = listedLibrary[CHOOSE i \in externalMatches :
                                              \A j \in externalMatches : i <= j]
                /\ ~(pc = "done" /\ response.kind = "notFound")

\* C27 witness: the library holds two records with the requested external id
\* and the request resolved the one listed first
C27_Witness ==
  /\ pc = "done" /\ response.kind = "status"
  /\ Cardinality(externalMatches) = 2 /\ resolved = listedLibrary[1]

\* the queue holds no record of the resolved movie
noEntryFor(m) == radarrQueue.entry = Undefined \/ radarrQueue.entry.movieId # m.id

\* C28: the resolved movie has no file, the queue holds no record of it and
\* every page reports the same totalRecords T: the scan asks page 1 at once,
\* also when T = 0, never more than max(1, ceil(T / pageSize)) pages, and it
\* ends after exactly that many page requests with in_queue = false.
C28_ExactPageCount ==
  (movie # Undefined /\ ~Truthy(movie, "hasFile") /\ noEntryFor(movie)) =>
    LET T == queueTotal(radarrQueue)
        n == Max(1, CeilDiv(T, pageSize))
    IN /\ calls.queue >= 1 /\ calls.queue <= n
       /\ (lastPage # Undefined) => lastPage.totalRecords = T
       /\ (pc = "done" /\ ~failed) =>
            /\ calls.queue = n /\ page = n + 1
            /\ response.kind = "status" /\ ~response.status.in_queue

\* C28 witness: an empty queue (T = 0), one page request, in_queue = false
C28_Witness ==
  /\ pc = "done" /\ ~failed /\ movie # Undefined /\ ~Truthy(movie, "hasFile")
  /\ queueTotal(radarrQueue) = 0 /\ calls.queue = 1
  /\ ~response.status.in_queue

\* C28, a longer scan: T = 250 and three page requests
C28_WitnessThreePages ==
  /\ pc = "done" /\ ~failed /\ movie # Undefined /\ noEntryFor(movie)
  /\ queueTotal(radarrQueue) = 250 /\ calls.queue = 3

\* the positions of a queue page answer that hold a record of movie m
entriesOf(data, m) == {i \in DOMAIN data.records : data.records[i].movieId = m.id}

\* C29: whenever a movie's status snapshot has in_queue = true, the resolved
\* record has no file, the queue page answered last in the request (the page
\* asked last) holds a record whose movieId is the resolved id, and the
\* queue object of the snapshot (time left, size left, status, title,
\* progress) is taken from the first such record of that answer.
C29_InQueueReportIsSound ==
  (status # Undefined /\ args.mediaType = "movie" /\ status.in_queue) =>
    /\ ~Truthy(movie, "hasFile")
    /\ lastPage # Undefined /\ calls.queue = page
    /\ entriesOf(lastPage, movie) # {}
    /\ LET first == CHOOSE i \in entriesOf(lastPage, movie) :
                      \A j \in entriesOf(lastPage, movie) : i <= j
           e == lastPage.records[first]
       IN /\ status.queue.status = e.status /\ status.queue.title = e.title
          /\ status.queue.timeLeft = formatTime(e.timeleft)
          /\ status.queue.sizeLeft = formatBytes(e.sizeleft)
          /\ status.queue.downloadProgress = downloadProgress(e)
    /\ pc = "done" /\ response.kind = "status" /\ response.status = status

\* C29 witness: the page answered last holds two different records of the
\* movie and the snapshot reports the first
C29_Witness ==
  /\ pc = "done" /\ response.kind = "status" /\ response.status.in_queue
  /\ entriesOf(lastPage, movie) = {1, 2}
  /\ lastPage.records[1] # lastPage.records[2]
  /\ status.queue.sizeLeft = formatBytes(lastPage.records[1].sizeleft)
  /\ status.queue.sizeLeft # formatBytes(lastPage.records[2].sizeleft)

\* the create commands of request_download r that reached a backend
postsBy(r) == {c \in posts : c.by = r}

====
